---- MODULE Spec2Model ----
(***************************************************************************)
(* Model of the activity analytics of GitHub-Stat-Checker:                 *)
(*   - process_contribution_data (src/github_stats.py): the flattening of  *)
(*     the contribution calendar, the highest contribution and the streak  *)
(*     scan, modelled loop iteration by loop iteration;                    *)
(*   - the predict_* functions (src/github_activity_predictions.py),       *)
(*     modelled as operators over exact rationals and applied by one call  *)
(*     action each.                                                        *)
(* Floats are modelled by exact rationals; a value rounded to k decimals   *)
(* is an integer number of 10^-k units (tenths, hundredths).               *)
(***************************************************************************)
EXTENDS Integers, Sequences, FiniteSets

\* ---------------------------------------------------------------- bounds
MaxWeeks == 2
MaxDaysPerWeek == 2
MaxCount == 2
MaxArg == 5
MaxField == 1
MaxYears == 3
MaxDoublings == 3

\* ------------------------------------------------------- helper arithmetic
Max(a, b) == IF a >= b THEN a ELSE b

Abs(a) == IF a >= 0 THEN a ELSE 0 - a

\* Python's round(n / d, k) on the quotient scaled by 10^k (d > 0): the
\* integer nearest to n / d.  A quotient exactly half way between two
\* integers is a decimal tie, which in general is not a binary float: the
\* double nearest to the quotient then decides, so both neighbours are
\* admitted as outcomes.
Round(n, d) ==
    LET q == n \div d
        r == n - q * d
    IN  IF 2 * r < d THEN {q}
        ELSE IF 2 * r > d THEN {q + 1}
        ELSE {q, q + 1}

\* ------------------------------------------------- process_contribution_data
\* A day record is modelled by its contributionCount; NoCount is a record
\* without the contributionCount key.
NoCount == -1
DayValues == (0 .. MaxCount) \cup {NoCount}

SeqsUpTo(S, n) == UNION {[1 .. k -> S] : k \in 0 .. n}
WeekValues == SeqsUpTo(DayValues, MaxDaysPerWeek)
CalendarValues == SeqsUpTo(WeekValues, MaxWeeks)

\* days = [day for week in calendar['weeks'] for day in week['contributionDays']]
RECURSIVE FlattenWeeks(_)
FlattenWeeks(weeks) ==
    IF weeks = <<>> THEN <<>>
    ELSE Head(weeks) \o FlattenWeeks(Tail(weeks))

\* day.get('contributionCount', 0)
GetCount(day) == IF day = NoCount THEN 0 ELSE day

\* max(day['contributionCount'] for day in days), 0 on ValueError (empty
\* series) or KeyError (a day without the key)
RECURSIVE MaxOfCounts(_)
MaxOfCounts(ds) ==
    IF Len(ds) = 1 THEN Head(ds)
    ELSE Max(Head(ds), MaxOfCounts(Tail(ds)))

HighestContribution(ds) ==
    IF ds = <<>> THEN 0
    ELSE IF \E i \in 1 .. Len(ds) : ds[i] = NoCount THEN 0
    ELSE MaxOfCounts(ds)

\* The raw counters totalContributions and restrictedContributionsCount of
\* the payload: a number, a string (of one digit, v), JSON null, or no key.
Num(n) == [t |-> "int", v |-> n]
Str(n) == [t |-> "str", v |-> n]
Null == [t |-> "null", v |-> 0]
Absent == [t |-> "absent", v |-> 0]
FieldValues == {Num(n) : n \in 0 .. MaxField} \cup {Str(n) : n \in 1 .. MaxField}
               \cup {Null, Absent}

\* Mutant of FieldOrDefault: the fallback of .get is 1.
FieldOrDefaultOne(f) == IF f = Absent THEN Num(1) ELSE f

\* calendar.get('totalContributions', 0)
FieldOrDefault(f) == IF f = Absent THEN Num(0) ELSE f

\* public_contributions + private_contributions raises TypeError unless both
\* are numbers or both are strings.
AddRaises(a, b) == ~ (a.t = b.t /\ a.t \in {"int", "str"})

\* The value of public_contributions + private_contributions: the sum of two
\* numbers, the concatenation of two strings.
Add(a, b) == IF a.t = "int" THEN Num(a.v + b.v) ELSE Str(10 * a.v + b.v)

\* if not isinstance(x, (int, float)): x = 0
NumberOrZero(f) == IF f.t = "int" THEN f.v ELSE 0

\* Where the payload departs from the nested structure data / user /
\* contributionsCollection / contributionCalendar / weeks / contributionDays,
\* and how: the value at that level is absent, null, a scalar (a number), or
\* an empty string or object.
Levels == {"data", "user", "contributionsCollection", "contributionCalendar",
           "weeks", "contributionDays"}
Defects == {"absent", "null", "scalar", "empty"}

\* Whether lines 50-52 raise KeyError or TypeError on the defect: a missing
\* key, a subscript or an iteration of None or of a number do; an empty
\* string or object in the place of a list is iterated as no element.
StructureRaises(level, defect) ==
    ~ (defect = "empty" /\ level \in {"weeks", "contributionDays"})

WellFormed(total, restricted) ==
    [level |-> "none", defect |-> "none", total |-> total, restricted |-> restricted]
Malformed(level, defect, total, restricted) ==
    [level |-> level, defect |-> defect, total |-> total, restricted |-> restricted]

\* The dates the records of a flat series of n days can carry, each date a day
\* number: in date order as the platform sends them, newest first (weeks and
\* the days inside them reversed), and with the first record sent twice.
Ascending(n) == [i \in 1 .. n |-> i]
Descending(n) == [i \in 1 .. n |-> n + 1 - i]
Repeated(n) == [i \in 1 .. n |-> IF i = 1 THEN 1 ELSE i - 1]
DateOrders(n) == {Ascending(n), Descending(n), Repeated(n)}

VARIABLES
    payload,         \* the shape and the raw counters of the argument `data`
    pc,              \* "idle", "scan" (inside the streak loop), "done"
    days,            \* the flat day series of the call in progress
    dates,           \* dates[i] is the date of the record days[i]
    pos,             \* index of the next day the streak loop visits
    current_streak,
    longest_streak,
    highest_contribution,
    result,          \* the dict returned by process_contribution_data
    call,            \* the last predict_* call: function, arguments, return
    repeat,          \* the same call made again later (run_all_predictions)
    decay            \* the decay loop of predict_account_longevity in progress

vars == <<payload, pc, days, dates, pos, current_streak, longest_streak,
          highest_contribution, result, call, repeat, decay>>

NoResult == [returned |-> FALSE, total_contributions |-> Num(0),
             public_contributions |-> 0, private_contributions |-> 0,
             highest_contribution |-> 0,
             current_streak |-> 0, longest_streak |-> 0, days |-> <<>>]

\* The dict of the except branch (lines 97-105).
ErrorResult == [returned |-> TRUE, total_contributions |-> Num(0),
                public_contributions |-> 0, private_contributions |-> 0,
                highest_contribution |-> 0,
                current_streak |-> 0, longest_streak |-> 0, days |-> <<>>]
NoCall == [fn |-> "none"]
NoDecay == [h |-> <<>>, projected |-> <<0, 1>>, factor |-> <<1, 1>>, years |-> 0]

\* cont_stats.get("highest_contribution_date", None) of the dashboard: dates
\* are day numbers from 1, NoDate is None.
NoDate == 0
HighestContributionDate(res) ==
    IF "highest_contribution_date" \in DOMAIN res
        THEN res.highest_contribution_date
    ELSE NoDate

scanVars == <<payload, pc, days, dates, pos, current_streak, longest_streak,
              highest_contribution, result, repeat, decay>>

Init ==
    /\ payload = WellFormed(Absent, Absent)
    /\ pc = "idle"
    /\ days = <<>>
    /\ dates = <<>>
    /\ pos = 1
    /\ current_streak = 0
    /\ longest_streak = 0
    /\ highest_contribution = 0
    /\ result = NoResult
    /\ call = NoCall
    /\ repeat = NoCall
    /\ decay = NoDecay

\* Entry of process_contribution_data on a payload of the expected structure
\* (or with an empty string or object in the place of a list, which lines
\* 50-52 do not notice), up to the start of the streak loop.  The calls of
\* process_contribution_data share no state, so a behaviour makes one.
ProcessBegin ==
    /\ pc = "idle"
    /\ call = NoCall
    /\ \E weeks \in CalendarValues, total \in FieldValues, restricted \in FieldValues,
          level \in {"none", "weeks", "contributionDays"} :
        /\ ~ AddRaises(FieldOrDefault(total), FieldOrDefault(restricted))
        /\ level # "none" => weeks = <<>>
        /\ payload' = IF level = "none" THEN WellFormed(total, restricted)
                      ELSE Malformed(level, "empty", total, restricted)
        /\ days' = FlattenWeeks(weeks)
        /\ dates' \in DateOrders(Len(FlattenWeeks(weeks)))
        /\ highest_contribution' = HighestContribution(FlattenWeeks(weeks))
    /\ pos' = 1
    /\ current_streak' = 0
    /\ longest_streak' = 0
    /\ result' = NoResult
    /\ pc' = "scan"
    /\ UNCHANGED <<call, repeat, decay>>

\* process_contribution_data on a payload that makes lines 50-57 raise
\* KeyError or TypeError: the except branch returns the all-zero dict.
ProcessFail ==
    /\ pc = "idle"
    /\ call = NoCall
    /\ \E total \in FieldValues, restricted \in FieldValues :
        \/ \E level \in Levels, defect \in Defects :
              /\ StructureRaises(level, defect)
              /\ payload' = Malformed(level, defect, total, restricted)
        \/ /\ AddRaises(FieldOrDefault(total), FieldOrDefault(restricted))
           /\ payload' = WellFormed(total, restricted)
    /\ result' = ErrorResult
    /\ pc' = "done"
    /\ UNCHANGED <<days, dates, pos, current_streak, longest_streak,
                   highest_contribution, call, repeat, decay>>

\* Mutant of StreakAfter: the reset on a day without contributions is lost.
StreakAfterNoReset(day, cur) == IF GetCount(day) > 0 THEN cur + 1 ELSE cur

\* current_streak after the loop body has run on one day.
StreakAfter(day, cur) == IF GetCount(day) > 0 THEN cur + 1 ELSE 0

\* Mutant of LongestAfter: the maximum is taken before the increment.
LongestAfterStale(day, cur, longest) ==
    IF GetCount(day) > 0 THEN Max(longest, cur) ELSE longest

\* Mutant of LongestAfter: a day without contributions resets the maximum too.
LongestAfterReset(day, cur, longest) ==
    IF GetCount(day) > 0 THEN Max(longest, cur + 1) ELSE 0

\* longest_streak after the loop body has run on one day.
LongestAfter(day, cur, longest) ==
    IF GetCount(day) > 0 THEN Max(longest, cur + 1) ELSE longest

\* One iteration of `for day in days`.
StreakStep ==
    /\ pc = "scan"
    /\ pos <= Len(days)
    /\ current_streak' = StreakAfter(days[pos], current_streak)
    /\ longest_streak' = LongestAfter(days[pos], current_streak, longest_streak)
    /\ pos' = pos + 1
    /\ UNCHANGED <<payload, pc, days, dates, highest_contribution, result, call,
                   repeat, decay>>

\* Loop exhausted: the return statement.
ProcessReturn ==
    /\ pc = "scan"
    /\ pos > Len(days)
    /\ result' = [returned |-> TRUE,
                  total_contributions |->
                      Add(FieldOrDefault(payload.total),
                          FieldOrDefault(payload.restricted)),
                  public_contributions |->
                      NumberOrZero(FieldOrDefault(payload.total)),
                  private_contributions |->
                      NumberOrZero(FieldOrDefault(payload.restricted)),
                  highest_contribution |-> highest_contribution,
                  current_streak |-> current_streak,
                  longest_streak |-> longest_streak,
                  days |-> days]
    /\ pc' = "done"
    /\ UNCHANGED <<payload, days, dates, pos, current_streak, longest_streak,
                   highest_contribution, call, repeat, decay>>

\* ---------------------------------------------------------- predict_* calls
\* Argument values: the small range plus the values of the unit tests
\* (src/test_github_predictions.py).  A rate is a number of hundredths.
SmallArgs == 0 .. MaxArg
ContributionArgs == SmallArgs \cup {115, 5000}
DaysArgs == SmallArgs \cup {200, 365}
MilestoneArgs == SmallArgs \cup {5000, 10000}
RateArgs == ((0 - MaxArg) .. MaxArg) \cup {1370}

\* float('inf'), a finite number of tenths, and (in mutants only) an
\* exception that leaves the function.
Unreachable == [kind |-> "inf", tenths |-> 0]
Finite(t) == [kind |-> "finite", tenths |-> t]
Raised == [kind |-> "raised", tenths |-> 0]

\* Mutant of predict_milestone: the rate guard is `< 0`, so a zero rate
\* reaches the division.
predict_milestone_StrictGuard(current_contributions, milestone, rate100) ==
    IF rate100 < 0 THEN {Unreachable}
    ELSE IF milestone - current_contributions <= 0 THEN {Finite(0)}
    ELSE IF rate100 = 0 THEN {Raised}
    ELSE {Finite(t) :
            t \in Round(1000 * (milestone - current_contributions), rate100)}

\* Mutant of predict_milestone: the quotient is truncated, not rounded.
predict_milestone_Truncated(current_contributions, milestone, rate100) ==
    IF rate100 <= 0 THEN {Unreachable}
    ELSE IF milestone - current_contributions <= 0 THEN {Finite(0)}
    ELSE {Finite((1000 * (milestone - current_contributions)) \div rate100)}

\* predict_milestone(current_contributions, milestone, lifetime_rate) with
\* lifetime_rate = rate100 / 100; the set of values the call can return.
predict_milestone(current_contributions, milestone, rate100) ==
    IF rate100 <= 0 THEN {Unreachable}
    ELSE IF milestone - current_contributions <= 0 THEN {Finite(0)}
    ELSE {Finite(t) :
            t \in Round(1000 * (milestone - current_contributions), rate100)}

\* The day counts of predict_consistency: 323 of 404 days is 79.95...%.
ScoreArgs == DaysArgs \cup {323, 404}

\* Mutant of ConsistencyClass: a highly consistent contributor starts at 70%.
ConsistencyClassSeventy(active_days, github_days) ==
    IF 100 * active_days >= 70 * github_days THEN "Highly consistent contributor"
    ELSE IF 100 * active_days >= 50 * github_days THEN "Regular contributor"
    ELSE IF 100 * active_days >= 25 * github_days THEN "Occasional contributor"
    ELSE "Sporadic contributor"

\* Mutant of ConsistencyClass: the top threshold is exclusive.
ConsistencyClassOpen(active_days, github_days) ==
    IF 100 * active_days > 80 * github_days THEN "Highly consistent contributor"
    ELSE IF 100 * active_days >= 50 * github_days THEN "Regular contributor"
    ELSE IF 100 * active_days >= 25 * github_days THEN "Occasional contributor"
    ELSE "Sporadic contributor"

\* The if/elif chain of predict_consistency on the unrounded
\* consistency_score = active_days / github_days * 100 (github_days > 0).
ConsistencyClass(active_days, github_days) ==
    IF 100 * active_days >= 80 * github_days THEN "Highly consistent contributor"
    ELSE IF 100 * active_days >= 50 * github_days THEN "Regular contributor"
    ELSE IF 100 * active_days >= 25 * github_days THEN "Occasional contributor"
    ELSE "Sporadic contributor"

\* predict_consistency(active_days, github_days): the score in tenths of a
\* percent and the classification.
predict_consistency(active_days, github_days) ==
    IF github_days = 0 THEN {[score |-> 0, classification |-> "No activity"]}
    ELSE {[score |-> t,
           classification |-> ConsistencyClass(active_days, github_days)] :
            t \in Round(1000 * active_days, github_days)}

LongTermActivity(lifetime, current, trend) ==
    [lifetime_rate |-> lifetime, current_rate |-> current, trend |-> trend]

\* Mutant of Trend: the two rates change places in the comparison.
TrendSwapped(total_contributions, github_days, current_year_contributions, active_days, lifetime, current) ==
    IF total_contributions * active_days > current_year_contributions * github_days
        THEN "increasing"
    ELSE IF current_year_contributions * github_days = total_contributions * active_days
        THEN "stable"
    ELSE "decreasing"

\* Mutant of Trend: the rates are compared after rounding to 2 decimals.
TrendOfRounded(total_contributions, github_days, current_year_contributions, active_days, lifetime, current) ==
    IF current > lifetime THEN "increasing"
    ELSE IF current = lifetime THEN "stable"
    ELSE "decreasing"

\* The trend expression of predict_long_term_activity: current_rate against
\* lifetime_rate, both unrounded (github_days > 0, active_days > 0);
\* lifetime and current are the rates as returned.
Trend(total_contributions, github_days, current_year_contributions, active_days, lifetime, current) ==
    IF current_year_contributions * github_days > total_contributions * active_days
        THEN "increasing"
    ELSE IF current_year_contributions * github_days = total_contributions * active_days
        THEN "stable"
    ELSE "decreasing"

\* Mutant of predict_long_term_activity: the guard asks for both to be 0.
predict_long_term_activity_And(total_contributions, github_days, current_year_contributions, active_days) ==
    IF github_days = 0 /\ active_days = 0
        THEN {LongTermActivity(0, 0, "insufficient data")}
    ELSE IF github_days = 0
        THEN {LongTermActivity(0, 0, "ZeroDivisionError")}
    ELSE IF active_days = 0
        THEN {LongTermActivity(l, 0,
                 IF 0 > total_contributions THEN "increasing"
                 ELSE IF 0 = total_contributions THEN "stable"
                 ELSE "decreasing") :
                l \in Round(100 * total_contributions, github_days)}
    ELSE {LongTermActivity(l, c,
             Trend(total_contributions, github_days,
                   current_year_contributions, active_days, l, c)) :
            <<l, c>> \in Round(100 * total_contributions, github_days)
                         \X Round(100 * current_year_contributions, active_days)}

\* predict_long_term_activity(total_contributions, github_days,
\* current_year_contributions, active_days): rates in hundredths.
predict_long_term_activity(total_contributions, github_days, current_year_contributions, active_days) ==
    IF github_days = 0 \/ active_days = 0
        THEN {LongTermActivity(0, 0, "insufficient data")}
    ELSE {LongTermActivity(l, c,
             Trend(total_contributions, github_days,
                   current_year_contributions, active_days, l, c)) :
            <<l, c>> \in Round(100 * total_contributions, github_days)
                         \X Round(100 * current_year_contributions, active_days)}

\* The predict_* functions share no state with each other or with
\* process_contribution_data, so a behaviour applies one of them once.
Call_predict_milestone ==
    /\ pc = "idle" /\ call = NoCall
    /\ \E current_contributions \in ContributionArgs, milestone \in MilestoneArgs,
          rate100 \in RateArgs :
        \E ret \in predict_milestone(current_contributions, milestone, rate100) :
            call' = [fn |-> "predict_milestone",
                     args |-> <<current_contributions, milestone, rate100>>,
                     ret |-> ret]
    /\ UNCHANGED scanVars

Call_predict_consistency ==
    /\ pc = "idle" /\ call = NoCall
    /\ \E active_days \in ScoreArgs, github_days \in ScoreArgs :
        \E ret \in predict_consistency(active_days, github_days) :
            call' = [fn |-> "predict_consistency",
                     args |-> <<active_days, github_days>>,
                     ret |-> ret]
    /\ UNCHANGED scanVars

Call_predict_long_term_activity ==
    /\ pc = "idle" /\ call = NoCall
    /\ \E total_contributions \in ContributionArgs, github_days \in DaysArgs,
          current_year_contributions \in ContributionArgs, active_days \in DaysArgs :
        \E ret \in predict_long_term_activity(total_contributions, github_days,
                        current_year_contributions, active_days) :
            call' = [fn |-> "predict_long_term_activity",
                     args |-> <<total_contributions, github_days,
                                current_year_contributions, active_days>>,
                     ret |-> ret]
    /\ UNCHANGED scanVars

\* ------------------------------------------- yearly histories (most recent first)
\* Active-day counts 0, 5, 10, 20, ... and the history of the unit tests;
\* for predict_burnout the histories on the classification boundaries, for
\* predict_account_longevity two that halve from a large value.
HistoryValues == {0} \cup {5 * 2 ^ k : k \in 0 .. MaxDoublings}
Histories == SeqsUpTo(HistoryValues, MaxYears) \cup {<<150, 100, 50>>}
BurnoutHistories == Histories \cup {<<80, 100>>, <<95, 100>>, <<105, 100>>, <<120, 100>>}
LongevityHistories ==
    Histories \cup {<<8192, 16384>>, <<16384, 32768>>, <<49152, 65536>>}

\* Fractions <<numerator, denominator>> in lowest terms, denominator > 0.
RECURSIVE GCD(_, _)
GCD(a, b) == IF b = 0 THEN a ELSE GCD(b, a % b)

Reduce(f) ==
    LET g == GCD(Abs(f[1]), f[2])
    IN  <<f[1] \div g, f[2] \div g>>

\* (curr - prev) / prev if prev > 0 else 0
Change(curr, prev) == IF prev > 0 THEN Reduce(<<curr - prev, prev>>) ELSE <<0, 1>>

\* sum of the changes of the pairs zip(h[:-1], h[1:]) from pair i on
RECURSIVE SumChanges(_, _)
SumChanges(h, i) ==
    IF i >= Len(h) THEN <<0, 1>>
    ELSE LET c == Change(h[i], h[i + 1])
             rest == SumChanges(h, i + 1)
         IN  Reduce(<<c[1] * rest[2] + rest[1] * c[2], c[2] * rest[2]>>)

\* sum(changes) / len(changes), as a fraction of 1 (Len(h) >= 2)
AvgChange(h) ==
    LET sum == SumChanges(h, 1)
    IN  Reduce(<<sum[1], sum[2] * (Len(h) - 1)>>)

\* Mutant of BurnoutClass: the thresholds are inclusive.
BurnoutClassInclusive(a) ==
    IF 100 * a[1] <= (0 - 20) * a[2]
        THEN "Significant decrease in activity, potential burnout risk"
    ELSE IF 100 * a[1] <= (0 - 5) * a[2] THEN "Activity is gradually decreasing"
    ELSE IF 100 * a[1] >= 20 * a[2] THEN "Activity is significantly increasing"
    ELSE IF 100 * a[1] >= 5 * a[2] THEN "Activity is gradually increasing"
    ELSE "Activity is stable"

\* The if/elif chain of predict_burnout on avg_change = 100 * a[1] / a[2].
BurnoutClass(a) ==
    IF 100 * a[1] < (0 - 20) * a[2]
        THEN "Significant decrease in activity, potential burnout risk"
    ELSE IF 100 * a[1] < (0 - 5) * a[2] THEN "Activity is gradually decreasing"
    ELSE IF 100 * a[1] > 20 * a[2] THEN "Activity is significantly increasing"
    ELSE IF 100 * a[1] > 5 * a[2] THEN "Activity is gradually increasing"
    ELSE "Activity is stable"

\* Mutant of predict_burnout: the guard is `< 1`, so a single entry reaches
\* the division by len(changes) = 0.
predict_burnout_ShortGuard(h) ==
    IF Len(h) < 1 THEN "Insufficient data for burnout prediction"
    ELSE IF Len(h) = 1 THEN "ZeroDivisionError"
    ELSE BurnoutClass(AvgChange(h))

\* predict_burnout(active_days_by_year)
predict_burnout(h) ==
    IF Len(h) < 2 THEN "Insufficient data for burnout prediction"
    ELSE BurnoutClass(AvgChange(h))

\* The strings predict_account_longevity returns; years is the number that
\* "~{years_until_inactive:.1f} years" prints (0 in the other strings).
Longevity(text, years) == [text |-> text, years |-> years]
InsufficientLongevity == Longevity("Insufficient data for longevity prediction", 0)
Sustained == Longevity("Account shows sustained or increasing activity", 0)
TenPlusYears == Longevity("Account likely to remain active for 10+ years", 0)
CeaseIn(years) == Longevity("Account activity may cease in ~N years", years)

\* while projected_activity > 10 and years_until_inactive < 10:
\*     projected_activity *= (1 + avg_change); years_until_inactive += 1
\* The value of years_until_inactive when the loop ends.
\* Mutant of LoopContinues: the loop is bounded by `< 11`.
LoopContinuesToEleven(projected, years) ==
    projected[1] > 10 * projected[2] /\ years < 11

\* projected_activity > 10 and years_until_inactive < 10
LoopContinues(projected, years) ==
    projected[1] > 10 * projected[2] /\ years < 10

RECURSIVE DecayYears(_, _, _)
DecayYears(projected, factor, years) ==
    IF LoopContinues(projected, years)
        THEN DecayYears(Reduce(<<projected[1] * factor[1],
                                 projected[2] * factor[2]>>),
                        factor, years + 1)
    ELSE years

\* predict_account_longevity(active_days_by_year)
predict_account_longevity(h) ==
    IF Len(h) < 2 THEN InsufficientLongevity
    ELSE LET avg == AvgChange(h)
         IN  IF avg[1] >= 0 THEN Sustained
             ELSE LET years == DecayYears(<<h[1], 1>>, <<avg[2] + avg[1], avg[2]>>, 0)
                  IN  IF years >= 10 THEN TenPlusYears ELSE CeaseIn(years)

\* ---------------------------------------------------- predict_effective_rate
TotalArgs == ((0 - MaxArg) .. MaxArg) \cup {0 - 100, 115, 5000}

\* Mutant of predict_effective_rate: the raw rate is not weighted by the
\* activity frequency.
predict_effective_rate_Unweighted(total_contributions, active_days, github_days) ==
    IF active_days = 0 \/ github_days = 0 THEN {0}
    ELSE Round(100 * total_contributions, github_days)

\* predict_effective_rate(total_contributions, active_days, github_days), in
\* hundredths.
predict_effective_rate(total_contributions, active_days, github_days) ==
    IF active_days = 0 \/ github_days = 0 THEN {0}
    ELSE Round(100 * total_contributions * active_days, github_days * github_days)

\* ------------------------------------------------ predict_future_active_days
\* predict_future_active_days(active_days, github_days, remaining_days), in
\* tenths (github_days >= 0).
predict_future_active_days(active_days, github_days, remaining_days) ==
    IF github_days = 0 THEN {0}
    ELSE Round(10 * active_days * remaining_days, github_days)

\* ------------------------------------------------------ run_all_predictions
\* Days are numbered from 1 = 1 January of a leap year; the year after it
\* has 365 days.  DayOfYear is datetime.now().timetuple().tm_yday.
LeapYearDays == 366
DayOfYear(day) == IF day <= LeapYearDays THEN day ELSE day - LeapYearDays

\* The days on which datetime.now() is read: the first and the last two days
\* of the leap year, the first and the last day of the year after it.
NowValues == {1, 365, 366, 367, 731}

\* The fields of user_data: a key can be missing (Missing in the place of a
\* number, MissingHistory in the place of the list), created_at can be a
\* string that is not a %Y-%m-%d date.
Missing == -1
BadDate == -2
MissingHistory == <<Missing>>
CreatedValues == {Missing, BadDate, 1, 2}
TotalValues == {Missing, 0, 1, 5000}
CurrentYearValues == {Missing, 0, 2}
ActiveDaysValues == {Missing, 0, 1, 200}
ByYearValues == {MissingHistory, <<>>, <<2, 1>>, <<20, 40>>}
MilestoneValues == {Missing, 1, 10000}
UserDataValues ==
    [created_at : CreatedValues, total_contributions : TotalValues,
     current_year_contributions : CurrentYearValues,
     active_days : ActiveDaysValues, active_days_by_year : ByYearValues,
     milestone : MilestoneValues]

\* The two dicts of the except branches.
MissingField == [error |-> "Missing required field"]
PredictionError == [error |-> "Error running predictions"]

\* user_data.get("milestone", 10000)
MilestoneOrDefault(user_data) ==
    IF user_data.milestone = Missing THEN 10000 ELSE user_data.milestone

\* The dicts the body of the try block can return for the rates long_term.
Predictions(user_data, github_days, remaining_days, long_term, milestone) ==
    {[long_term_activity |-> long_term,
      future_active_days |-> future_active,
      burnout |-> predict_burnout(user_data.active_days_by_year),
      consistency |-> consistency,
      account_longevity |-> predict_account_longevity(user_data.active_days_by_year),
      effective_rate |-> effective_rate,
      milestone |-> milestone_days] :
        future_active \in predict_future_active_days(user_data.active_days,
                                                     github_days, remaining_days),
        consistency \in predict_consistency(user_data.active_days, github_days),
        effective_rate \in predict_effective_rate(user_data.total_contributions,
                                                  user_data.active_days, github_days),
        milestone_days \in predict_milestone(user_data.total_contributions,
                                             milestone, long_term.lifetime_rate)}

\* Mutant of run_all_predictions: the milestone is read with
\* user_data["milestone"].
run_all_predictions_MilestoneRequired(user_data, now) ==
    IF user_data.created_at = Missing THEN {MissingField}
    ELSE IF user_data.created_at = BadDate THEN {PredictionError}
    ELSE IF \/ Missing \in {user_data.total_contributions,
                            user_data.current_year_contributions,
                            user_data.active_days, user_data.milestone}
            \/ user_data.active_days_by_year = MissingHistory
        THEN {MissingField}
    ELSE LET github_days == now - user_data.created_at
             remaining_days == 365 - DayOfYear(now)
         IN  UNION {Predictions(user_data, github_days, remaining_days, long_term,
                                user_data.milestone) :
                      long_term \in predict_long_term_activity(
                          user_data.total_contributions, github_days,
                          user_data.current_year_contributions,
                          user_data.active_days)}

\* run_all_predictions(user_data) when datetime.now() falls on day `now`: the
\* set of dicts the call can return.
run_all_predictions(user_data, now) ==
    IF user_data.created_at = Missing THEN {MissingField}
    ELSE IF user_data.created_at = BadDate THEN {PredictionError}
    ELSE IF \/ Missing \in {user_data.total_contributions,
                            user_data.current_year_contributions,
                            user_data.active_days}
            \/ user_data.active_days_by_year = MissingHistory
        THEN {MissingField}
    ELSE LET github_days == now - user_data.created_at
             remaining_days == 365 - DayOfYear(now)
         IN  UNION {Predictions(user_data, github_days, remaining_days, long_term,
                                MilestoneOrDefault(user_data)) :
                      long_term \in predict_long_term_activity(
                          user_data.total_contributions, github_days,
                          user_data.current_year_contributions,
                          user_data.active_days)}

\* ------------------------------------------------------- process_user_data
\* What the model keeps of the dict process_user_data returns, and the
\* KeyError that leaves it when a record has no contributionCount.
UserData(active_days) == [raised |-> FALSE, active_days |-> active_days]
UserDataKeyError == [raised |-> TRUE, active_days |-> 0]

\* [day["date"] for week in weeks for day in week["contributionDays"]
\*  if day["contributionCount"] > 0], as the positions of the list's records
ContributionDays(ds) == {i \in 1 .. Len(ds) : ds[i] > 0}

\* Mutant of process_user_data: len(contribution_days) without set().
process_user_data_Listed(ds, dts) ==
    IF \E i \in 1 .. Len(ds) : ds[i] = NoCount THEN UserDataKeyError
    ELSE UserData(Cardinality(ContributionDays(ds)))

\* process_user_data on the flat series ds whose records carry the dates dts:
\* active_days = len(set(contribution_days)).
process_user_data(ds, dts) ==
    IF \E i \in 1 .. Len(ds) : ds[i] = NoCount THEN UserDataKeyError
    ELSE UserData(Cardinality({dts[i] : i \in ContributionDays(ds)}))

Call_process_user_data ==
    /\ pc = "idle" /\ call = NoCall
    /\ \E weeks \in CalendarValues :
        \E dts \in DateOrders(Len(FlattenWeeks(weeks))) :
            call' = [fn |-> "process_user_data",
                     args |-> <<FlattenWeeks(weeks), dts>>,
                     ret |-> process_user_data(FlattenWeeks(weeks), dts)]
    /\ UNCHANGED scanVars

Call_predict_burnout ==
    /\ pc = "idle" /\ call = NoCall
    /\ \E h \in BurnoutHistories :
        call' = [fn |-> "predict_burnout", args |-> <<h>>,
                 ret |-> predict_burnout(h)]
    /\ UNCHANGED scanVars

\* The history reaches the decay loop: at least 2 entries, avg_change < 0.
Decaying(h) == Len(h) >= 2 /\ AvgChange(h)[1] < 0

\* predict_account_longevity up to its first return or, for a decaying
\* history, up to the start of the loop.
Call_predict_account_longevity ==
    /\ pc = "idle" /\ call = NoCall
    /\ \E h \in LongevityHistories :
        IF Decaying(h)
            THEN /\ decay' = [h |-> h, projected |-> <<h[1], 1>>,
                              factor |-> <<AvgChange(h)[2] + AvgChange(h)[1],
                                           AvgChange(h)[2]>>,
                              years |-> 0]
                 /\ pc' = "decay"
                 /\ UNCHANGED call
        ELSE /\ call' = [fn |-> "predict_account_longevity", args |-> <<h>>,
                         ret |-> predict_account_longevity(h)]
             /\ UNCHANGED <<pc, decay>>
    /\ UNCHANGED <<payload, days, dates, pos, current_streak, longest_streak,
                   highest_contribution, result, repeat>>

\* One iteration of the while loop.
DecayStep ==
    /\ pc = "decay"
    /\ LoopContinues(decay.projected, decay.years)
    /\ decay' = [decay EXCEPT
                    !.projected = Reduce(<<decay.projected[1] * decay.factor[1],
                                           decay.projected[2] * decay.factor[2]>>),
                    !.years = decay.years + 1]
    /\ UNCHANGED <<payload, pc, days, dates, pos, current_streak, longest_streak,
                   highest_contribution, result, call, repeat>>

\* The loop condition fails: the if/else after the loop returns.
DecayReturn ==
    /\ pc = "decay"
    /\ ~LoopContinues(decay.projected, decay.years)
    /\ call' = [fn |-> "predict_account_longevity", args |-> <<decay.h>>,
                ret |-> IF decay.years >= 10 THEN TenPlusYears
                        ELSE CeaseIn(decay.years)]
    /\ pc' = "done"
    /\ UNCHANGED <<payload, days, dates, pos, current_streak, longest_streak,
                   highest_contribution, result, repeat, decay>>

Call_predict_effective_rate ==
    /\ pc = "idle" /\ call = NoCall
    /\ \E total_contributions \in TotalArgs, active_days \in DaysArgs,
          github_days \in DaysArgs :
        \E ret \in predict_effective_rate(total_contributions, active_days,
                                          github_days) :
            call' = [fn |-> "predict_effective_rate",
                     args |-> <<total_contributions, active_days, github_days>>,
                     ret |-> ret]
    /\ UNCHANGED scanVars

\* ----------------------- fetch_repository_details and get_user_repositories
\* What requests.post and raise_for_status do, and what response.json() gives.
Transports == {"ok", "ConnectionError", "HTTPError"}
Bodies ==
    {"well formed", "errors", "errors empty", "errors without message",
     "errors null", "no data", "data null", "not an object", "not JSON"}
FetchFunctions == {"fetch_repository_details", "get_user_repositories"}

\* The outcomes of a fetch: the returned dict by kind, or the exception that
\* leaves the function.
Fetched(kind) == [raised |-> FALSE, kind |-> kind]
FetchRaised(exception) == [raised |-> TRUE, kind |-> exception]

\* The try block and its two except clauses.  response.json() on a body that
\* is not JSON raises requests' JSONDecodeError, a RequestException from
\* requests 2.27 on and a plain ValueError before: both are admitted.
Fetch(transport, body) ==
    IF transport # "ok" THEN {Fetched("Failed to fetch")}
    ELSE IF body = "not JSON"
        THEN {Fetched("Failed to fetch"), FetchRaised("ValueError")}
    ELSE IF body = "errors" THEN {Fetched("first error message")}
    ELSE IF body = "errors empty" THEN {FetchRaised("IndexError")}
    ELSE IF body = "well formed" THEN {Fetched("data")}
    ELSE {Fetched("Invalid response format")}

\* One call of either function: one requests.post.
Call_fetch ==
    /\ pc = "idle" /\ call = NoCall
    /\ \E fn \in FetchFunctions, transport \in Transports, body \in Bodies :
        \E ret \in Fetch(transport, body) :
            call' = [fn |-> fn, args |-> <<transport, body>>, posts |-> 1,
                     ret |-> ret]
    /\ UNCHANGED scanVars

\* The account exists when the prediction is made.
Created(user_data, now) ==
    user_data.created_at \in {Missing, BadDate} \/ user_data.created_at <= now

Call_run_all_predictions ==
    /\ pc = "idle" /\ call = NoCall
    /\ \E user_data \in UserDataValues, now \in NowValues :
        /\ Created(user_data, now)
        /\ \E ret \in run_all_predictions(user_data, now) :
            call' = [fn |-> "run_all_predictions", args |-> <<user_data>>,
                     now |-> now, ret |-> ret]
    /\ UNCHANGED scanVars

\* The caller runs the predictions again, later, on the same user_data.
Repeat_run_all_predictions ==
    /\ call.fn = "run_all_predictions"
    /\ repeat = NoCall
    /\ \E now \in NowValues :
        /\ now >= call.now
        /\ \E ret \in run_all_predictions(call.args[1], now) :
            repeat' = [fn |-> "run_all_predictions", args |-> call.args,
                       now |-> now, ret |-> ret]
    /\ UNCHANGED <<payload, pc, days, dates, pos, current_streak, longest_streak,
                   highest_contribution, result, call, decay>>

Next ==
    \/ ProcessBegin
    \/ ProcessFail
    \/ StreakStep
    \/ ProcessReturn
    \/ Call_predict_milestone
    \/ Call_predict_consistency
    \/ Call_predict_long_term_activity
    \/ Call_predict_burnout
    \/ Call_predict_account_longevity
    \/ DecayStep
    \/ DecayReturn
    \/ Call_predict_effective_rate
    \/ Call_process_user_data
    \/ Call_fetch
    \/ Call_run_all_predictions
    \/ Repeat_run_all_predictions

Spec == Init /\ [][Next]_vars

\* The interpreter does not stall inside the decay loop.
LiveSpec == Spec /\ WF_vars(DecayStep) /\ WF_vars(DecayReturn)
\* ------------------------------------------------------------------ streaks
\* The days the streak loop has visited so far.
Scanned == SubSeq(days, 1, pos - 1)

AllZero(ds) == \A i \in 1 .. Len(ds) : GetCount(ds[i]) = 0

\* Length of the maximal run of strictly positive counts that ends at the
\* last day of ds.
TrailingRun(ds) ==
    LET starts == {i \in 1 .. Len(ds) + 1 :
                      \A j \in i .. Len(ds) : GetCount(ds[j]) > 0}
    IN  Len(ds) + 1 - (CHOOSE i \in starts : \A k \in starts : i <= k)

\* Length of the longest run of strictly positive counts anywhere in ds.
LongestRun(ds) ==
    LET lens == {0} \cup
                {j - i + 1 : <<i, j>> \in
                    {<<a, b>> \in (1 .. Len(ds)) \X (1 .. Len(ds)) :
                        a <= b /\ \A k \in a .. b : GetCount(ds[k]) > 0}}
    IN  CHOOSE m \in lens : \A n \in lens : n <= m

\* C1: longest_streak >= current_streak after every step of the scan and in
\* the returned result, and both are 0 when every count of the series is 0.
C1_LongestAtLeastCurrent ==
    /\ longest_streak >= current_streak
    /\ result.longest_streak >= result.current_streak
    /\ AllZero(days) => current_streak = 0 /\ longest_streak = 0
    /\ AllZero(result.days) => result.current_streak = 0 /\ result.longest_streak = 0

C1_Witness ==
    /\ pc = "done"
    /\ result.returned
    /\ result.current_streak > 0
    /\ result.longest_streak > result.current_streak

\* C2: the returned current_streak is the length of the maximal trailing run
\* of strictly positive counts (0 when the last count is 0 or the series is
\* empty).
C2_CurrentIsTrailingRun ==
    result.returned =>
        /\ result.current_streak = TrailingRun(result.days)
        /\ (result.days = <<>> \/ GetCount(result.days[Len(result.days)]) = 0)
              => result.current_streak = 0

C2_Witness ==
    /\ result.returned
    /\ Len(result.days) = 4
    /\ GetCount(result.days[1]) > 0
    /\ GetCount(result.days[2]) = 0
    /\ result.current_streak = 2

\* C3: the returned longest_streak is the length of the longest run of
\* consecutive days with count > 0 anywhere in the series; during the single
\* in-order scan the counter is the trailing run of the days visited so far
\* (incremented on count > 0, reset on count = 0) and longest_streak the
\* longest run among them.
C3_LongestIsLongestRun ==
    /\ result.returned => result.longest_streak = LongestRun(result.days)
    /\ pc = "scan" =>
        /\ current_streak = TrailingRun(Scanned)
        /\ longest_streak = LongestRun(Scanned)

C3_Witness ==
    /\ result.returned
    /\ Len(result.days) = 4
    /\ result.longest_streak = 2
    /\ result.current_streak = 0
    /\ GetCount(result.days[1]) = 0
\* -------------------------------------------------------- predict_milestone
IsMilestoneCall == call.fn = "predict_milestone"

\* C4: predict_milestone returns 0 whenever target <= current_total, for
\* every rate including rate <= 0; the unreachable sentinel is never returned
\* for a milestone that is already reached.
C4_ReachedMilestoneIsZero ==
    (IsMilestoneCall /\ call.args[2] <= call.args[1]) => call.ret = Finite(0)

\* C5: with rate <= 0 and target > current_total predict_milestone returns
\* the unreachable sentinel, and no exception leaves it.
C5_UnreachableSentinel ==
    (IsMilestoneCall /\ call.args[3] <= 0 /\ call.args[2] > call.args[1])
        => call.ret = Unreachable

C5_Witness ==
    /\ IsMilestoneCall
    /\ call.args = <<5000, 10000, 0>>
    /\ call.ret.kind = "inf"

\* C6: with rate > 0 and target > current_total predict_milestone returns
\* (target - current_total) / rate rounded to 1 decimal: a non-negative
\* number of tenths that is nearest to the quotient; 5000, 10000 and 13.7
\* give 365.0.
C6_DaysRequiredRounded ==
    (IsMilestoneCall /\ call.args[3] > 0 /\ call.args[2] > call.args[1]) =>
        /\ call.ret.kind = "finite"
        /\ call.ret.tenths >= 0
        /\ 2 * Abs(call.ret.tenths * call.args[3]
                   - 1000 * (call.args[2] - call.args[1])) <= call.args[3]
        /\ call.args = <<5000, 10000, 1370>> => call.ret.tenths = 3650

C6_Witness ==
    /\ IsMilestoneCall
    /\ call.args = <<5000, 10000, 1370>>
    /\ call.ret = Finite(3650)

\* ------------------------------------------------------ predict_consistency
IsConsistencyCall == call.fn = "predict_consistency"

\* C7: the consistency score is within [0, 100] for all non-negative
\* active_days and total_days, and total_days = 0 yields score 0.0 with the
\* classification "No activity".
C7_ScoreWithin0And100 ==
    IsConsistencyCall =>
        /\ call.ret.score >= 0
        /\ call.ret.score <= 1000
        /\ call.args[2] = 0 =>
              call.ret = [score |-> 0, classification |-> "No activity"]

\* C8: for total_days > 0 the percentage p = active_days / total_days * 100
\* is classified with closed lower bounds: p >= 80 highly consistent,
\* 50 <= p < 80 regular, 25 <= p < 50 occasional, p < 25 sporadic; exactly
\* one of the four is returned; 200 of 365 gives 54.8 and regular.
C8_ClassificationThresholds ==
    (IsConsistencyCall /\ call.args[2] > 0) =>
        LET a100 == 100 * call.args[1]
            g == call.args[2]
            class == call.ret.classification
        IN  /\ class \in {"Highly consistent contributor", "Regular contributor",
                          "Occasional contributor", "Sporadic contributor"}
            /\ class = "Highly consistent contributor" <=> a100 >= 80 * g
            /\ class = "Regular contributor" <=> (a100 >= 50 * g /\ a100 < 80 * g)
            /\ class = "Occasional contributor" <=> (a100 >= 25 * g /\ a100 < 50 * g)
            /\ class = "Sporadic contributor" <=> a100 < 25 * g
            /\ call.args = <<200, 365>> =>
                  call.ret = [score |-> 548, classification |-> "Regular contributor"]

C8_Witness ==
    /\ IsConsistencyCall
    /\ call.args = <<4, 5>>
    /\ call.ret = [score |-> 800,
                   classification |-> "Highly consistent contributor"]

\* C27 as stated: the classification agrees with the score returned next to
\* it (rounded to 1 decimal): for github_days > 0, score >= 80 iff highly
\* consistent, 50 <= score < 80 iff regular, 25 <= score < 50 iff occasional,
\* score < 25 iff sporadic.
C27_ClassAgreesWithScore ==
    (IsConsistencyCall /\ call.args[2] > 0) =>
        LET score == call.ret.score
            class == call.ret.classification
        IN  /\ class = "Highly consistent contributor" <=> score >= 800
            /\ class = "Regular contributor" <=> (500 <= score /\ score < 800)
            /\ class = "Occasional contributor" <=> (250 <= score /\ score < 500)
            /\ class = "Sporadic contributor" <=> score < 250

\* C27, amended: the classification is that of the unrounded percentage and
\* the returned score is the percentage rounded to 1 decimal, so the score
\* lies in the band of the classification or exactly on its upper threshold
\* (80.0, 50.0 or 25.0), and is within 0.05 of the percentage.
C27_ClassAgreesUpToRounding ==
    (IsConsistencyCall /\ call.args[2] > 0) =>
        LET score == call.ret.score
            class == call.ret.classification
        IN  /\ class = "Highly consistent contributor" => score >= 800
            /\ class = "Regular contributor" => (500 <= score /\ score <= 800)
            /\ class = "Occasional contributor" => (250 <= score /\ score <= 500)
            /\ class = "Sporadic contributor" => score <= 250
            /\ 2 * Abs(score * call.args[2] - 1000 * call.args[1]) <= call.args[2]

C27_Witness ==
    /\ IsConsistencyCall
    /\ call.args = <<323, 404>>
    /\ call.ret = [score |-> 800, classification |-> "Regular contributor"]

\* ----------------------------------------------- predict_long_term_activity
IsLongTermCall == call.fn = "predict_long_term_activity"

\* C9: whenever total_elapsed_days = 0 or active_days = 0 the result is the
\* insufficient-data trend with both rates 0.0, whatever the other arguments,
\* and no division error leaves the function.
C9_InsufficientData ==
    (IsLongTermCall /\ (call.args[2] = 0 \/ call.args[4] = 0)) =>
        call.ret = LongTermActivity(0, 0, "insufficient data")

C9_Witness ==
    /\ IsLongTermCall
    /\ call.args[1] > 0 /\ call.args[2] = 0 /\ call.args[4] > 0
    /\ call.ret.trend = "insufficient data"

\* C10 as stated: with total_elapsed_days > 0 and active_days > 0 the trend
\* is the comparison of the two returned (rounded) rates.
C10_TrendOfReturnedRates ==
    (IsLongTermCall /\ call.args[2] > 0 /\ call.args[4] > 0) =>
        /\ call.ret.trend = "increasing" <=>
              call.ret.current_rate > call.ret.lifetime_rate
        /\ call.ret.trend = "stable" <=>
              call.ret.current_rate = call.ret.lifetime_rate
        /\ call.ret.trend = "decreasing" <=>
              call.ret.current_rate < call.ret.lifetime_rate

\* C10 amended: with total_elapsed_days > 0 and active_days > 0 the trend is
\* the comparison of the two rates before rounding (increasing iff
\* current_year_contributions / active_days > total_contributions /
\* github_days, stable iff equal, decreasing otherwise); the returned rates
\* are those two rounded to 2 decimals and are never ordered against the
\* trend.
C10_TrendOfUnroundedRates ==
    (IsLongTermCall /\ call.args[2] > 0 /\ call.args[4] > 0) =>
        LET lhs == call.args[3] * call.args[2]   \* current rate, cross-multiplied
            rhs == call.args[1] * call.args[4]   \* lifetime rate, cross-multiplied
        IN  /\ call.ret.trend = "increasing" <=> lhs > rhs
            /\ call.ret.trend = "stable" <=> lhs = rhs
            /\ call.ret.trend = "decreasing" <=> lhs < rhs
            /\ 2 * Abs(call.ret.lifetime_rate * call.args[2]
                       - 100 * call.args[1]) <= call.args[2]
            /\ 2 * Abs(call.ret.current_rate * call.args[4]
                       - 100 * call.args[3]) <= call.args[4]
            /\ call.ret.trend = "increasing" =>
                  call.ret.current_rate >= call.ret.lifetime_rate
            /\ call.ret.trend = "decreasing" =>
                  call.ret.current_rate <= call.ret.lifetime_rate

C10_Witness ==
    /\ IsLongTermCall
    /\ call.args[2] > 0 /\ call.args[4] > 0
    /\ call.ret.trend = "decreasing"
    /\ call.ret.current_rate = call.ret.lifetime_rate

\* The arguments the predictions page passes: the current year's total c as
\* both totals, total_days >= 1 and 0 <= active_days <= total_days.
IsPageLongTermCall ==
    /\ IsLongTermCall
    /\ call.args[1] = call.args[3]
    /\ call.args[1] >= 0
    /\ call.args[2] >= 1
    /\ 0 <= call.args[4] /\ call.args[4] <= call.args[2]

\* C30: with the arguments of the predictions page the returned trend is
\* never decreasing: it is insufficient data when active_days = 0, stable
\* only when c = 0 or active_days = total_days, and increasing otherwise.
C30_PageTrendNeverDecreasing ==
    IsPageLongTermCall =>
        LET c == call.args[1]
            total_days == call.args[2]
            active_days == call.args[4]
            trend == call.ret.trend
        IN  /\ trend # "decreasing"
            /\ trend = "insufficient data" <=> active_days = 0
            /\ trend = "stable"
                   <=> (active_days > 0 /\ (c = 0 \/ active_days = total_days))
            /\ trend = "increasing"
                   <=> (active_days > 0 /\ c > 0 /\ active_days < total_days)

C30_Witness ==
    /\ IsPageLongTermCall
    /\ call.args = <<115, 365, 115, 200>>
    /\ call.ret.trend = "increasing"

\* ------------------------------------------------------------ predict_burnout
IsBurnoutCall == call.fn = "predict_burnout"

\* The product of the positive previous-year values h[2], h[3], ... of h.
RECURSIVE PrevProduct(_, _)
PrevProduct(h, i) ==
    IF i > Len(h) THEN 1
    ELSE (IF h[i] > 0 THEN h[i] ELSE 1) * PrevProduct(h, i + 1)

\* The sum of the percent changes of the pairs from pair i on, over the
\* common denominator PrevProduct(h, 2); a pair with prev = 0 adds 0.
RECURSIVE PercentSum(_, _)
PercentSum(h, i) ==
    IF i >= Len(h) THEN 0
    ELSE (IF h[i + 1] > 0
              THEN 100 * (h[i] - h[i + 1]) * (PrevProduct(h, 2) \div h[i + 1])
              ELSE 0) + PercentSum(h, i + 1)

\* The average percent change of h is AvgPercentNum(h) / AvgPercentDen(h).
AvgPercentNum(h) == PercentSum(h, 1)
AvgPercentDen(h) == PrevProduct(h, 2) * (Len(h) - 1)

\* C11: for a most-recent-first history of at least 2 non-negative counts
\* predict_burnout averages the percent changes (curr - prev) / prev * 100 of
\* the consecutive pairs, a pair with prev = 0 counting as 0%, and classifies
\* the average: avg < -20 burnout risk, -20 <= avg < -5 gradual decrease,
\* avg > 20 significant increase, 5 < avg <= 20 gradual increase, otherwise
\* stable; [150, 100, 50] averages 75 and is a significant increase.
C11_BurnoutClassification ==
    (IsBurnoutCall /\ Len(call.args[1]) >= 2) =>
        LET h == call.args[1]
            n == AvgPercentNum(h)
            d == AvgPercentDen(h)
        IN  /\ (call.ret = "Significant decrease in activity, potential burnout risk")
                   <=> (n < (0 - 20) * d)
            /\ (call.ret = "Activity is gradually decreasing")
                   <=> ((0 - 20) * d <= n /\ n < (0 - 5) * d)
            /\ (call.ret = "Activity is significantly increasing") <=> (n > 20 * d)
            /\ (call.ret = "Activity is gradually increasing")
                   <=> (5 * d < n /\ n <= 20 * d)
            /\ (call.ret = "Activity is stable") <=> ((0 - 5) * d <= n /\ n <= 5 * d)
            /\ (h = <<150, 100, 50>>) => (n = 75 * d)

C11_Witness ==
    /\ IsBurnoutCall
    /\ call.args[1] = <<150, 100, 50>>
    /\ call.ret = "Activity is significantly increasing"

\* ------------------------------------------------- predict_account_longevity
IsLongevityCall == call.fn = "predict_account_longevity"

\* C12: given a history of fewer than 2 periods (empty or one entry),
\* predict_burnout and predict_account_longevity return their explicit
\* insufficient-data string and raise nothing.
C12_InsufficientHistory ==
    /\ (IsBurnoutCall /\ Len(call.args[1]) < 2)
           => call.ret = "Insufficient data for burnout prediction"
    /\ (IsLongevityCall /\ Len(call.args[1]) < 2)
           => call.ret = InsufficientLongevity

C12_Witness ==
    /\ IsBurnoutCall
    /\ Len(call.args[1]) = 1
    /\ call.ret = "Insufficient data for burnout prediction"

\* The average fractional change of h is negative (Len(h) >= 2).
Declining(h) == AvgPercentNum(h) < 0

\* 1 + avg, as a fraction over AvgPercentDen scaled by 100.
DecayFactor(h) == Reduce(<<100 * AvgPercentDen(h) + AvgPercentNum(h), 100 * AvgPercentDen(h)>>)

\* The most recent value h[1] compounded by (1 + avg) for n years.
RECURSIVE Projected(_, _)
Projected(h, n) ==
    IF n = 0 THEN <<h[1], 1>>
    ELSE LET p == Projected(h, n - 1)
             f == DecayFactor(h)
         IN  Reduce(<<p[1] * f[1], p[2] * f[2]>>)

Below10(h, n) == Projected(h, n)[1] < 10 * Projected(h, n)[2]
\* C13: for a history of at least 2 entries with a negative average change
\* the reported number of years n is the first year at which the compounded
\* value v * (1 + avg)^n is below 10, and "10+ years" is reported only when
\* the value has not dropped below 10 in the simulated years before the
\* tenth; for avg >= 0 the account is reported as sustained or increasing.
C13_FirstYearBelowFloor ==
    (IsLongevityCall /\ Len(call.args[1]) >= 2) =>
        LET h == call.args[1]
        IN  IF ~Declining(h) THEN call.ret = Sustained
            ELSE /\ call.ret.text \in {TenPlusYears.text, CeaseIn(0).text}
                 /\ (call.ret.text = CeaseIn(0).text) =>
                        /\ Below10(h, call.ret.years)
                        /\ \A m \in 0 .. call.ret.years - 1 : ~Below10(h, m)
                 /\ (call.ret = TenPlusYears) =>
                        \A m \in 0 .. 9 : ~Below10(h, m)

\* ---------------------------------------------------- predict_effective_rate
IsEffectiveRateCall == call.fn = "predict_effective_rate"

\* C14: predict_effective_rate returns 0.0 when active_days = 0 or
\* github_days = 0, and otherwise (total_contributions / github_days) *
\* (active_days / github_days) rounded to 2 decimals: the returned hundredths
\* are within half a hundredth of the exact product.
C14_EffectiveRateRounded ==
    IsEffectiveRateCall =>
        LET total_contributions == call.args[1]
            active_days == call.args[2]
            github_days == call.args[3]
        IN  IF active_days = 0 \/ github_days = 0 THEN call.ret = 0
            ELSE 2 * Abs(call.ret * github_days * github_days
                         - 100 * total_contributions * active_days)
                     <= github_days * github_days

C14_Witness ==
    /\ IsEffectiveRateCall
    /\ call.args = <<5000, 200, 365>>
    /\ call.ret = 751

\* C15: predict_effective_rate returns a value >= 0 for every input, a
\* negative total_contributions included (test_edge_cases asserts it for
\* total_contributions = -100, active_days = 200, github_days = 365).
C15_EffectiveRateNonNegative == IsEffectiveRateCall => call.ret >= 0

\* ------------------------------------------- process_contribution_data, whole
\* The series with every record that lacks its count given the count 0.
ZeroFilled(ds) == [i \in 1 .. Len(ds) |-> GetCount(ds[i])]

HasEveryCount(ds) == \A i \in 1 .. Len(ds) : ds[i] # NoCount

\* C16: for every payload that lacks the expected nested structure (a level
\* absent, null or of the wrong shape) process_contribution_data returns
\* total, public and private contributions, highest_contribution and both
\* streaks equal to 0 with an empty days list.
C16_MalformedGivesZeros ==
    (result.returned /\ payload.level # "none") => result = ErrorResult

\* C17: a day record without its count is treated as count = 0:
\* highest_contribution, current_streak and longest_streak are what the same
\* series gives with that record's count set to 0.
C17_MissingCountIsZero ==
    result.returned =>
        /\ result.highest_contribution = HighestContribution(ZeroFilled(result.days))
        /\ result.current_streak = TrailingRun(ZeroFilled(result.days))
        /\ result.longest_streak = LongestRun(ZeroFilled(result.days))

\* C18: in every result total_contributions = public_contributions +
\* private_contributions, also when a raw counter is missing or is not a
\* number.
C18_TotalIsPublicPlusPrivate ==
    result.returned =>
        result.total_contributions =
            Num(result.public_contributions + result.private_contributions)

EmptySeriesReturned ==
    /\ pc = "done"
    /\ result.returned
    /\ payload.level = "none"
    /\ days = <<>>

ZeroOrAbsent(f) == f \in {Num(0), Absent}

\* C19 as stated: for a well-formed payload whose series is empty every
\* aggregate (total, public, private, highest_contribution, both streaks) is
\* 0 and the highest_contribution_date is null.
C19_EmptySeriesAllZero ==
    EmptySeriesReturned =>
        /\ result.total_contributions = Num(0)
        /\ result.public_contributions = 0
        /\ result.private_contributions = 0
        /\ result.highest_contribution = 0
        /\ result.current_streak = 0
        /\ result.longest_streak = 0
        /\ HighestContributionDate(result) = NoDate

\* C19 amended: for a well-formed payload whose series is empty
\* highest_contribution, current_streak and longest_streak are 0, the days
\* list is empty and the highest_contribution_date is null; total, public and
\* private contributions are the payload's counters (their sum and the two
\* numbers), so they are 0 when both counters are 0 or absent.
C19_EmptySeriesZeroStreaks ==
    EmptySeriesReturned =>
        /\ result.highest_contribution = 0
        /\ result.current_streak = 0
        /\ result.longest_streak = 0
        /\ result.days = <<>>
        /\ HighestContributionDate(result) = NoDate
        /\ (ZeroOrAbsent(payload.total) /\ ZeroOrAbsent(payload.restricted)) =>
              /\ result.total_contributions = Num(0)
              /\ result.public_contributions = 0
              /\ result.private_contributions = 0
        /\ (payload.total.t = "int" /\ payload.restricted.t = "int") =>
              /\ result.public_contributions = payload.total.v
              /\ result.private_contributions = payload.restricted.v
              /\ result.total_contributions =
                    Num(payload.total.v + payload.restricted.v)

C19_Witness ==
    /\ EmptySeriesReturned
    /\ payload.total = Absent
    /\ result.private_contributions = 1
    /\ result.total_contributions = Num(1)
    /\ result.highest_contribution = 0

\* C20: highest_contribution is the maximum daily count over the whole
\* series, and highest_contribution_date is the earliest date on which that
\* maximum is attained.
C20_HighestAndEarliestDate ==
    (result.returned /\ result.days # <<>> /\ HasEveryCount(result.days)) =>
        LET ds == result.days
            h == result.highest_contribution
            d == HighestContributionDate(result)
        IN  /\ \A i \in 1 .. Len(ds) : ds[i] <= h
            /\ \E i \in 1 .. Len(ds) : ds[i] = h
            /\ \E i \in 1 .. Len(ds) : dates[i] = d /\ ds[i] = h
            /\ \A i \in 1 .. Len(ds) : ds[i] = h => d <= dates[i]

\* ------------------------------------------------------ order of the series
IsSortedByDate(ds) == \A i \in 1 .. Len(ds) - 1 : ds[i] <= ds[i + 1]

\* C21: the flat day series process_contribution_data returns for a
\* well-formed payload (the list the streak loop scans, whose records carry
\* the dates `dates`) is sorted ascending by date, also when the weeks or the
\* days inside a week arrive out of date order.
C21_SeriesSortedByDate ==
    (result.returned /\ payload.level = "none") => IsSortedByDate(dates)

\* ------------------------------------------------------- process_user_data
IsUserDataCall == call.fn = "process_user_data"

\* The dates of the series ds, dts on which the count is > 0.
ActiveDates(ds, dts) ==
    {d \in 1 .. Len(ds) : \E i \in 1 .. Len(ds) : dts[i] = d /\ ds[i] > 0}

\* C22: active_days returned by process_user_data is the number of days of
\* the calendar series whose count is > 0, each date counted once; it is
\* never larger than the number of days in the series and is 0 for an
\* all-zero series.
C22_ActiveDaysCounted ==
    (IsUserDataCall /\ ~call.ret.raised) =>
        LET ds == call.args[1]
            dts == call.args[2]
        IN  /\ call.ret.active_days = Cardinality(ActiveDates(ds, dts))
            /\ call.ret.active_days <= Len(ds)
            /\ (\A i \in 1 .. Len(ds) : ds[i] = 0) => call.ret.active_days = 0

C22_Witness ==
    /\ IsUserDataCall
    /\ call.args = <<<<1, 2, 0>>, <<1, 1, 2>>>>
    /\ call.ret = UserData(1)

\* ------------------------------------------------------ run_all_predictions
IsRunAllCall == call.fn = "run_all_predictions"

PredictionKeys ==
    {"long_term_activity", "future_active_days", "burnout", "consistency",
     "account_longevity", "effective_rate", "milestone"}

\* Every required key of user_data is present and created_at is a date.
HasRequiredFields(user_data) ==
    /\ user_data.created_at \notin {Missing, BadDate}
    /\ user_data.total_contributions # Missing
    /\ user_data.current_year_contributions # Missing
    /\ user_data.active_days # Missing
    /\ user_data.active_days_by_year # MissingHistory

\* C23: run_all_predictions raises nothing; when user_data lacks a required
\* field (or a step fails) it returns a dict with the key "error" and none of
\* the prediction keys, and when every required field is present and valid
\* it returns exactly the seven prediction keys, without "error".
C23_ErrorOrAllPredictions ==
    IsRunAllCall =>
        IF HasRequiredFields(call.args[1])
            THEN DOMAIN call.ret = PredictionKeys
        ELSE DOMAIN call.ret = {"error"}

C23_Witness ==
    /\ IsRunAllCall
    /\ call.args[1].created_at = 1
    /\ call.args[1].total_contributions = Missing
    /\ call.ret = MissingField

\* ----------------------- fetch_repository_details and get_user_repositories
IsFetchCall == call.fn \in FetchFunctions

\* C24: fetch_repository_details and get_user_repositories raise nothing and
\* issue exactly one POST per call; a transport or HTTP-status failure gives
\* the "Failed to fetch" error, a body that carries "errors" gives the first
\* error message, a body of another unexpected shape gives the "Invalid
\* response format" error, and only a well-formed body gives the data.
C24_FetchNeverRaises ==
    IsFetchCall =>
        LET transport == call.args[1]
            body == call.args[2]
        IN  /\ call.posts = 1
            /\ ~call.ret.raised
            /\ transport # "ok" => call.ret.kind = "Failed to fetch"
            /\ (transport = "ok" /\ body = "errors")
                   => call.ret.kind = "first error message"
            /\ (transport = "ok" /\ body \in {"no data", "data null", "not an object"})
                   => call.ret.kind = "Invalid response format"
            /\ call.ret.kind = "data" <=> (transport = "ok" /\ body = "well formed")

\* C28: in run_all_predictions the milestone estimate is finite whenever the
\* true lifetime rate is positive (total_contributions > 0, active_days > 0,
\* the account at least 1 day old), and it is what predict_milestone gives
\* for the unrounded rate total_contributions / github_days: the number of
\* tenths nearest to (milestone - total_contributions) * github_days /
\* total_contributions, or 0 for a milestone already reached.
C28_MilestoneOfTrueRate ==
    (/\ IsRunAllCall
     /\ HasRequiredFields(call.args[1])
     /\ call.args[1].total_contributions > 0
     /\ call.args[1].active_days > 0
     /\ call.now - call.args[1].created_at >= 1) =>
        LET total == call.args[1].total_contributions
            github_days == call.now - call.args[1].created_at
            remaining == MilestoneOrDefault(call.args[1]) - total
            estimate == call.ret.milestone
        IN  /\ estimate.kind = "finite"
            /\ IF remaining <= 0 THEN estimate.tenths = 0
               ELSE 2 * Abs(estimate.tenths * total - 10 * remaining * github_days)
                        <= total

\* C29: the future_active_days value is never negative: run_all_predictions
\* passes predict_future_active_days a remaining_days >= 0 on every day of
\* every year (day-of-year 1 to 366), so the reported future_active_days is
\* >= 0 for every non-negative active_days, and 0.0 when github_days = 0.
C29_FutureActiveDaysNonNegative ==
    (IsRunAllCall /\ HasRequiredFields(call.args[1])) =>
        /\ 365 - DayOfYear(call.now) >= 0
        /\ call.ret.future_active_days >= 0
        /\ call.now = call.args[1].created_at => call.ret.future_active_days = 0

\* -------------------------------------------------------------- purity
Repeated_run_all == IsRunAllCall /\ repeat # NoCall

\* Read on the same day, the clock leaves a repeated call of
\* run_all_predictions nothing to differ in.
SameDaySameResult ==
    (Repeated_run_all /\ repeat.now = call.now) => repeat.ret = call.ret

\* C25: every analytics function is a pure function of its arguments: two
\* calls of run_all_predictions with equal user_data return equal results
\* whatever happened between them and whenever they are made.
C25_EqualArgumentsEqualResults ==
    (Repeated_run_all /\ repeat.args = call.args) => repeat.ret = call.ret

\* ------------------------------------------------------- the decay loop
\* The stepwise loop returns what predict_account_longevity computes.
DecayLoopAgrees ==
    IsLongevityCall => call.ret = predict_account_longevity(call.args[1])

\* C26: predict_account_longevity terminates for every list of non-negative
\* integers: the decay loop runs at most 10 iterations, whatever the average
\* change and the starting value are, and then the function returns.
C26_DecayLoopTerminates ==
    /\ [](decay.years <= 10)
    /\ (pc = "decay") ~> IsLongevityCall

C26_Witness ==
    /\ IsLongevityCall
    /\ call.args[1] = <<16384, 32768>>
    /\ decay.years = 10
    /\ call.ret = TenPlusYears

====
